---------------------------- MODULE Spec2Model ----------------------------
(***************************************************************************)
(* Model of the kirikei BI-service pipeline:                               *)
(*   scrape.py           get_bi_service_list (catalog scraping + cache)    *)
(*   search.py           get_google_search_results (paged search + cache)  *)
(*   recall_services.py  get_services_from_gemini (recall filter)          *)
(*   details_services.py remove_unknown_services and the __main__ pipeline *)
(*                       with its zero-fill loop                           *)
(* The specifications share the variables; each one drives one part and   *)
(* leaves the variables of the other parts at their initial values.        *)
(***************************************************************************)
EXTENDS Integers, Sequences, FiniteSets, TLC

VARIABLES
  \* ---- name ingestion (scrape.py lines 43-49), one name at a time
  strip_pc, raw_name, stored_name, restripped,
  \* ---- scrape.get_bi_service_list
  bi_services_json,  \* contents of bi_services.json, or NoFile
  bi_pc,             \* position inside get_bi_service_list
  bi_arg,            \* the forced argument of the outermost call
  bi_forced,         \* the forced parameter of the running frame
  bi_depth,          \* number of nested re-entries of the function
  bi_i,              \* loop variable i
  service_list,      \* local service_list of the running frame
  bi_requests,       \* pages passed to requests.get during this call
  bi_forcedRuns,     \* times the forced branch was entered during this call
  bi_error,          \* page whose try block raised in this call (0: none)
  bi_errCards,       \* cards of that page appended before the exception
  bi_ret,            \* value returned by the last completed call
  bi_cacheAtCall,    \* bi_services.json as it was when the call started
  bi_prevFallback,   \* the previous call was forced=False with no cache file
  bi_lastFetch,      \* the latest completed live fetch: whether a page failed,
                     \* and the list it had accumulated
  \* ---- search.get_google_search_results
  search_results_json, \* contents of search_results.json, or NoFile
  g_pc,              \* position inside get_google_search_results
  g_query,           \* query
  g_num,             \* num_results
  g_arg,             \* the forced argument of the outermost call
  g_forced,          \* the forced parameter of the running frame
  g_depth,           \* number of nested re-entries of the function
  g_i,               \* loop variable i
  results,           \* local results of the running frame
  g_requests,        \* the (start, num) of every request of this call
  g_forcedRuns,      \* times the forced branch was entered during this call
  g_stop,            \* why the chunk loop ended: "", "fail", "nokey", "enough", "end"
  g_reads,           \* times this call opened search_results.json for reading
  g_writes,          \* times this call opened search_results.json for writing
  g_ret,             \* value returned by the last completed call
  g_cacheAtCall,     \* search_results.json as it was when the call started
  g_prevFallback,    \* the previous call was forced=False with no cache file
  g_lastFetch,       \* the latest completed live fetch: why its loop ended,
                     \* and the list it had accumulated
  \* ---- details_services.__main__
  d_pc,                     \* position inside the script
  d_service_list,           \* service_list
  service_list_gemini,      \* service_list_gemini
  known_service_list,       \* known_service_list
  service_details_gemini,   \* service_details_gemini
  lists,                    \* contents of the list objects holding score records
  services_scores,          \* the list object the name services_scores is bound to
  verifier_out,             \* what check_details returned, as it was on return
  d_k,                      \* position of the zero-fill loop in service_list
  bi_service_details_gemini_json, \* contents of bi_service_details_gemini.json
  bi_service_scores_gemini_json   \* contents of bi_service_scores_gemini.json

stripVars == <<strip_pc, raw_name, stored_name, restripped>>
biVars == <<bi_services_json, bi_pc, bi_arg, bi_forced, bi_depth, bi_i,
            service_list, bi_requests, bi_forcedRuns, bi_error, bi_errCards,
            bi_ret, bi_cacheAtCall, bi_prevFallback, bi_lastFetch>>
gVars == <<search_results_json, g_pc, g_query, g_num, g_arg, g_forced, g_depth,
           g_i, results, g_requests, g_forcedRuns, g_stop, g_reads, g_writes,
           g_ret, g_cacheAtCall, g_prevFallback, g_lastFetch>>
dVars == <<d_pc, d_service_list, service_list_gemini, known_service_list,
           service_details_gemini, lists, services_scores, verifier_out, d_k,
           bi_service_details_gemini_json, bi_service_scores_gemini_json>>
vars == <<stripVars, biVars, gVars, dVars>>

-----------------------------------------------------------------------------
(* Bounds of the model *)

\* longest raw product name explored by the ingestion specification
MaxLen == 4
\* longest service list the catalog provider hands to the details pipeline
MaxNames == 3
\* longest list of score records the verifier returns
MaxScores == 2

-----------------------------------------------------------------------------
(* Values *)

\* a value that may be missing is a sequence of length 0 (missing) or 1
Some(x) == <<x>>
\* the cache file does not exist (open() raises FileNotFoundError)
NoFile == <<>>
\* no value yet
None == <<>>
\* the full-width opening parenthesis U+FF08
FWParen == "FWParen"
\* a whitespace character
Space == " "
\* characters of product names: letters, whitespace, the full-width and the
\* ASCII opening parenthesis
Chars == {"a", "b", Space, FWParen, "("}

RECURSIVE SeqsUpTo(_, _)
\* all sequences over S of length at most n
SeqsUpTo(S, n) ==
  IF n = 0 THEN {<<>>}
  ELSE LET shorter == SeqsUpTo(S, n - 1)
       IN shorter \cup {Append(s, x) : s \in {t \in shorter : Len(t) = n - 1}, x \in S}

\* s[:n]
Take(s, n) == SubSeq(s, 1, IF n < Len(s) THEN n ELSE Len(s))

\* c in s
Contains(s, c) == \E k \in 1..Len(s) : s[k] = c

-----------------------------------------------------------------------------
(* Name ingestion: scrape.py lines 46-47 *)

RECURSIVE LStrip(_)
\* str.lstrip(): drop leading whitespace
LStrip(s) ==
  IF s = <<>> THEN s
  ELSE IF Head(s) = Space THEN LStrip(Tail(s)) ELSE s

RECURSIVE RStrip(_)
\* str.rstrip(): drop trailing whitespace
RStrip(s) ==
  IF s = <<>> THEN s
  ELSE IF s[Len(s)] = Space THEN RStrip(SubSeq(s, 1, Len(s) - 1)) ELSE s

\* str.strip()
Strip(s) == RStrip(LStrip(s))

RECURSIVE SplitHead(_, _)
\* s.split(d)[0]: the part of s before the first d (all of s when d is absent)
SplitHead(s, d) ==
  IF s = <<>> THEN <<>>
  ELSE IF Head(s) = d THEN <<>>
  ELSE <<Head(s)>> \o SplitHead(Tail(s), d)

\* a plausible slip: the stripping is applied to every name
strip_parenthetical_always(name) == Strip(SplitHead(name, FWParen))

\* if '（' in service_name: service_name = service_name.split('（')[0].strip()
strip_parenthetical(name) ==
  IF Contains(name, FWParen) THEN Strip(SplitHead(name, FWParen)) ELSE name

StripInit ==
  /\ strip_pc = "raw"
  /\ raw_name \in SeqsUpTo(Chars, MaxLen)
  /\ stored_name = None
  /\ restripped = None

\* service_name = p.find(...).string; strip; service_list.append(service_name)
Ingest ==
  /\ strip_pc = "raw"
  /\ stored_name' = Some(strip_parenthetical(raw_name))
  /\ strip_pc' = "stored"
  /\ UNCHANGED <<raw_name, restripped, biVars, gVars, dVars>>

\* the same stripping applied to the stored name (a stored list scraped again)
Reingest ==
  /\ strip_pc = "stored"
  /\ restripped' = Some(strip_parenthetical(stored_name[1]))
  /\ strip_pc' = "again"
  /\ UNCHANGED <<raw_name, stored_name, biVars, gVars, dVars>>

-----------------------------------------------------------------------------
(* scrape.get_bi_service_list *)

\* stop of range(1, 15)
PageStop == 15
\* last page according to the docstring: pages 1 to 15
DocLastPage == 15

\* raw anchor texts of the product cards of catalog page i
CatalogPage(i) ==
  CASE i % 3 = 1 -> << <<"a">>, <<"b", Space, FWParen, "a">> >>
    [] i % 3 = 2 -> << <<Space, "b", "a">> >>
    [] OTHER     -> << <<"a", "b", FWParen, "b", FWParen>>, <<"b">> >>

\* the names page i contributes: each raw name stripped and appended in order
PageNames(i) ==
  [k \in 1..Len(CatalogPage(i)) |-> strip_parenthetical(CatalogPage(i)[k])]

RECURSIVE NamesUpTo(_)
\* names of pages 1..n, in page order
NamesUpTo(n) == IF n = 0 THEN <<>> ELSE NamesUpTo(n - 1) \o PageNames(n)

BiInit ==
  /\ bi_services_json \in {NoFile, Some(<< <<"b">> >>)}
  /\ bi_pc = "idle"
  /\ bi_arg = FALSE
  /\ bi_forced = FALSE
  /\ bi_depth = 0
  /\ bi_i = 0
  /\ service_list = <<>>
  /\ bi_requests = <<>>
  /\ bi_forcedRuns = 0
  /\ bi_error = 0
  /\ bi_errCards = 0
  /\ bi_ret = None
  /\ bi_cacheAtCall = NoFile
  /\ bi_prevFallback = FALSE
  /\ bi_lastFetch = None

\* function entry with parameter forced (lines 27-29 and 61): runs is the number
\* of forced branches this call has entered so far
EnterBi(forced, runs) ==
  /\ bi_forced' = forced
  /\ service_list' = <<>>
  /\ bi_pc' = IF forced THEN "loop" ELSE "load"
  /\ bi_i' = IF forced THEN 1 ELSE 0
  /\ bi_forcedRuns' = IF forced THEN runs + 1 ELSE runs

\* a caller invokes get_bi_service_list(forced)
CallBi ==
  /\ bi_pc = "idle"
  /\ \E forced \in BOOLEAN :
       /\ bi_arg' = forced
       /\ EnterBi(forced, 0)
  /\ bi_depth' = 0
  /\ bi_requests' = <<>>
  /\ bi_error' = 0
  /\ bi_errCards' = 0
  /\ bi_cacheAtCall' = bi_services_json
  /\ bi_prevFallback' = (bi_ret # None /\ ~bi_arg /\ bi_cacheAtCall = NoFile)
  /\ UNCHANGED <<bi_services_json, bi_ret, bi_lastFetch>>
  /\ UNCHANGED <<stripVars, gVars, dVars>>

\* the position after iteration i of for i in range(1, 15)
AfterPage(i) == IF i + 1 < PageStop THEN "loop" ELSE "save"

\* one iteration of the page loop whose try block completes: the page is
\* requested, parsed, and every card's name is stripped and appended
PageOkBi ==
  /\ bi_pc = "loop"
  /\ bi_i < PageStop
  /\ bi_requests' = Append(bi_requests, bi_i)
  /\ service_list' = service_list \o PageNames(bi_i)
  /\ bi_i' = bi_i + 1
  /\ bi_pc' = AfterPage(bi_i)
  /\ UNCHANGED <<bi_services_json, bi_arg, bi_forced, bi_depth, bi_forcedRuns,
                 bi_error, bi_errCards, bi_ret, bi_cacheAtCall,
                 bi_prevFallback, bi_lastFetch>>
  /\ UNCHANGED <<stripVars, gVars, dVars>>

\* a plausible slip: the except clause continues with the next page
PageErrorBi_continue ==
  /\ bi_pc = "loop"
  /\ bi_i < PageStop
  /\ bi_requests' = Append(bi_requests, bi_i)
  /\ \E e \in 0..(IF Len(CatalogPage(bi_i)) = 0 THEN 0 ELSE Len(CatalogPage(bi_i)) - 1) :
       /\ service_list' = service_list \o Take(PageNames(bi_i), e)
       /\ bi_errCards' = e
  /\ bi_error' = bi_i
  /\ bi_i' = bi_i + 1
  /\ bi_pc' = AfterPage(bi_i)
  /\ UNCHANGED <<bi_services_json, bi_arg, bi_forced, bi_depth, bi_forcedRuns,
                 bi_ret, bi_cacheAtCall, bi_prevFallback, bi_lastFetch>>
  /\ UNCHANGED <<stripVars, gVars, dVars>>

\* one iteration of the page loop whose try block raises: the request fails
\* (no card appended) or card e+1 fails to parse (e cards appended); the
\* except clause prints and breaks
PageErrorBi ==
  /\ bi_pc = "loop"
  /\ bi_i < PageStop
  /\ bi_requests' = Append(bi_requests, bi_i)
  /\ \E e \in 0..(IF Len(CatalogPage(bi_i)) = 0 THEN 0 ELSE Len(CatalogPage(bi_i)) - 1) :
       /\ service_list' = service_list \o Take(PageNames(bi_i), e)
       /\ bi_errCards' = e
  /\ bi_error' = bi_i
  /\ bi_pc' = "save"
  /\ UNCHANGED <<bi_services_json, bi_arg, bi_forced, bi_depth, bi_i, bi_forcedRuns,
                 bi_ret, bi_cacheAtCall, bi_prevFallback, bi_lastFetch>>
  /\ UNCHANGED <<stripVars, gVars, dVars>>

\* a plausible slip: the list is persisted only when no page failed
SaveBi_onlyOnSuccess ==
  /\ bi_pc = "save"
  /\ bi_services_json' = IF bi_error = 0 THEN Some(service_list) ELSE bi_services_json
  /\ bi_lastFetch' = Some([failed |-> bi_error # 0, list |-> service_list])
  /\ bi_pc' = "ret"
  /\ UNCHANGED <<bi_arg, bi_forced, bi_depth, bi_i, service_list, bi_requests,
                 bi_forcedRuns, bi_error, bi_errCards, bi_ret, bi_cacheAtCall, bi_prevFallback>>
  /\ UNCHANGED <<stripVars, gVars, dVars>>

\* with open('bi_services.json', 'w') ...: json.dump(service_list, f)
SaveBi ==
  /\ bi_pc = "save"
  /\ bi_services_json' = Some(service_list)
  /\ bi_lastFetch' = Some([failed |-> bi_error # 0, list |-> service_list])
  /\ bi_pc' = "ret"
  /\ UNCHANGED <<bi_arg, bi_forced, bi_depth, bi_i, service_list, bi_requests,
                 bi_forcedRuns, bi_error, bi_errCards, bi_ret, bi_cacheAtCall, bi_prevFallback>>
  /\ UNCHANGED <<stripVars, gVars, dVars>>

\* else branch, the file exists: service_list = json.load(f)
LoadBi ==
  /\ bi_pc = "load"
  /\ bi_services_json # NoFile
  /\ service_list' = bi_services_json[1]
  /\ bi_pc' = "ret"
  /\ UNCHANGED <<bi_services_json, bi_arg, bi_forced, bi_depth, bi_i, bi_requests,
                 bi_forcedRuns, bi_error, bi_errCards, bi_ret, bi_cacheAtCall, bi_prevFallback, bi_lastFetch>>
  /\ UNCHANGED <<stripVars, gVars, dVars>>

\* a plausible slip: the fallback re-enters the function with forced=False
FallbackBi_unforced ==
  /\ bi_pc = "load"
  /\ bi_services_json = NoFile
  /\ bi_depth' = bi_depth + 1
  /\ EnterBi(FALSE, bi_forcedRuns)
  /\ UNCHANGED <<bi_services_json, bi_arg, bi_requests, bi_error, bi_errCards,
                 bi_ret, bi_cacheAtCall, bi_prevFallback, bi_lastFetch>>
  /\ UNCHANGED <<stripVars, gVars, dVars>>

\* else branch, FileNotFoundError: return get_bi_service_list(forced=True)
FallbackBi ==
  /\ bi_pc = "load"
  /\ bi_services_json = NoFile
  /\ bi_depth' = bi_depth + 1
  /\ EnterBi(TRUE, bi_forcedRuns)
  /\ UNCHANGED <<bi_services_json, bi_arg, bi_requests, bi_error, bi_errCards,
                 bi_ret, bi_cacheAtCall, bi_prevFallback, bi_lastFetch>>
  /\ UNCHANGED <<stripVars, gVars, dVars>>

\* print(...); return service_list (the re-entered frame's value is returned
\* unchanged by the frame that re-entered)
ReturnBi ==
  /\ bi_pc = "ret"
  /\ bi_ret' = Some(service_list)
  /\ bi_pc' = "idle"
  /\ UNCHANGED <<bi_services_json, bi_arg, bi_forced, bi_depth, bi_i, service_list,
                 bi_requests, bi_forcedRuns, bi_error, bi_errCards, bi_cacheAtCall,
                 bi_prevFallback, bi_lastFetch>>
  /\ UNCHANGED <<stripVars, gVars, dVars>>

-----------------------------------------------------------------------------
(* search.get_google_search_results *)

\* lower limit of num_results
MinResults == 1
\* upper limit of num_results
MaxResults == 100
\* results per request: step of range(0, num_results, 10) and min(10, ...)
ChunkSize == 10

\* values of num_results the callers pass: below, inside and above the limits
NumResultsInputs == {0, 1, 15, 30, 101}
\* the search keyword of the callers ("BIツール 公式サイト")
Queries == {"q1"}

\* a plausible slip: the upper limit is not checked
ValidNum_noUpper(n) == MinResults <= n

\* 1 <= num_results <= 100
ValidNum(n) == MinResults <= n /\ n <= MaxResults

\* a plausible slip: every request asks for a full chunk
ChunkNum_full(n, i) == ChunkSize

\* "num": min(10, num_results - i)
ChunkNum(n, i) == IF ChunkSize < n - i THEN ChunkSize ELSE n - i

\* numbers of items a response to a request for num results may carry: none
\* (an empty "items" array), one, as many as asked, or one more than asked
ItemCounts(num) == {0, 1, num, num + 1}

\* c result items for query q (the items themselves are opaque to the program);
\* "q0" marks the items of a cache file written by an earlier run
Items(q, c) == [k \in 1..c |-> q]

GInit ==
  /\ search_results_json \in {NoFile, Some(Items("q0", 2))}
  /\ g_pc = "idle"
  /\ g_query = "q1"
  /\ g_num = 0
  /\ g_arg = FALSE
  /\ g_forced = FALSE
  /\ g_depth = 0
  /\ g_i = 0
  /\ results = <<>>
  /\ g_requests = <<>>
  /\ g_forcedRuns = 0
  /\ g_stop = ""
  /\ g_reads = 0
  /\ g_writes = 0
  /\ g_ret = None
  /\ g_cacheAtCall = NoFile
  /\ g_prevFallback = FALSE
  /\ g_lastFetch = None

\* the body after the range check, with parameter forced (lines 30-32 and 76):
\* results = []; if forced: ... else: ...
EnterSearch(forced, runs) ==
  /\ g_forced' = forced
  /\ results' = <<>>
  /\ g_pc' = IF forced THEN "loop" ELSE "load"
  /\ g_i' = 0
  /\ g_forcedRuns' = IF forced THEN runs + 1 ELSE runs

\* a caller invokes get_google_search_results(query, num_results, forced);
\* if not 1 <= num_results <= 100 the call goes straight to return []
CallSearch ==
  /\ g_pc = "idle"
  /\ \E q \in Queries, n \in NumResultsInputs, forced \in BOOLEAN :
       /\ g_query' = q
       /\ g_num' = n
       /\ g_arg' = forced
       /\ IF ValidNum(n)
          THEN EnterSearch(forced, 0)
          ELSE /\ g_pc' = "reject"
               /\ g_forced' = forced
               /\ g_forcedRuns' = 0
               /\ UNCHANGED <<results, g_i>>
  /\ g_depth' = 0
  /\ g_requests' = <<>>
  /\ g_stop' = ""
  /\ g_reads' = 0
  /\ g_writes' = 0
  /\ g_cacheAtCall' = search_results_json
  /\ g_prevFallback' = (g_ret # None /\ ~g_arg /\ ValidNum(g_num) /\ g_cacheAtCall = NoFile)
  /\ UNCHANGED <<search_results_json, g_ret, g_lastFetch>>
  /\ UNCHANGED <<stripVars, biVars, dVars>>

\* print("Error: ..."); return []
RejectSearch ==
  /\ g_pc = "reject"
  /\ g_ret' = Some(<<>>)
  /\ g_pc' = "idle"
  /\ UNCHANGED <<search_results_json, g_query, g_num, g_arg, g_forced, g_depth, g_i,
                 results, g_requests, g_forcedRuns, g_stop, g_reads, g_writes,
                 g_cacheAtCall, g_prevFallback, g_lastFetch>>
  /\ UNCHANGED <<stripVars, biVars, dVars>>

\* the request of the iteration with loop variable i: start = i + 1,
\* num = min(10, num_results - i)
Request(n, i) == [start |-> i + 1, num |-> ChunkNum(n, i)]

\* an iteration whose response carries "items": results.extend(data["items"]);
\* if len(results) >= num_results: break; otherwise the next i of the range
ChunkItems ==
  /\ g_pc = "loop"
  /\ g_i < g_num
  /\ g_requests' = Append(g_requests, Request(g_num, g_i))
  /\ \E c \in ItemCounts(ChunkNum(g_num, g_i)) :
       /\ results' = results \o Items(g_query, c)
       /\ IF Len(results) + c >= g_num
          THEN /\ g_stop' = "enough"
               /\ g_pc' = "save"
               /\ g_i' = g_i
          ELSE /\ g_i' = g_i + ChunkSize
               /\ g_pc' = IF g_i + ChunkSize < g_num THEN "loop" ELSE "save"
               /\ g_stop' = IF g_i + ChunkSize < g_num THEN "" ELSE "end"
  /\ UNCHANGED <<search_results_json, g_query, g_num, g_arg, g_forced, g_depth,
                 g_forcedRuns, g_reads, g_writes, g_ret, g_cacheAtCall,
                 g_prevFallback, g_lastFetch>>
  /\ UNCHANGED <<stripVars, biVars, dVars>>

\* an iteration whose response has no "items" key: print and break
ChunkNoItems ==
  /\ g_pc = "loop"
  /\ g_i < g_num
  /\ g_requests' = Append(g_requests, Request(g_num, g_i))
  /\ g_stop' = "nokey"
  /\ g_pc' = "save"
  /\ UNCHANGED <<search_results_json, g_query, g_num, g_arg, g_forced, g_depth, g_i,
                 results, g_forcedRuns, g_reads, g_writes, g_ret, g_cacheAtCall,
                 g_prevFallback, g_lastFetch>>
  /\ UNCHANGED <<stripVars, biVars, dVars>>

\* an iteration whose request, raise_for_status or json() raises: the except
\* clauses print and break
ChunkFail ==
  /\ g_pc = "loop"
  /\ g_i < g_num
  /\ g_requests' = Append(g_requests, Request(g_num, g_i))
  /\ g_stop' = "fail"
  /\ g_pc' = "save"
  /\ UNCHANGED <<search_results_json, g_query, g_num, g_arg, g_forced, g_depth, g_i,
                 results, g_forcedRuns, g_reads, g_writes, g_ret, g_cacheAtCall,
                 g_prevFallback, g_lastFetch>>
  /\ UNCHANGED <<stripVars, biVars, dVars>>

\* with open('search_results.json', 'w') ...: json.dump(results, f)
SaveSearch ==
  /\ g_pc = "save"
  /\ search_results_json' = Some(results)
  /\ g_writes' = g_writes + 1
  /\ g_lastFetch' = Some([stop |-> g_stop, list |-> results])
  /\ g_pc' = "ret"
  /\ UNCHANGED <<g_query, g_num, g_arg, g_forced, g_depth, g_i, results, g_requests,
                 g_forcedRuns, g_stop, g_reads, g_ret, g_cacheAtCall, g_prevFallback>>
  /\ UNCHANGED <<stripVars, biVars, dVars>>

\* else branch, the file exists: results = json.load(f)
LoadSearch ==
  /\ g_pc = "load"
  /\ search_results_json # NoFile
  /\ results' = search_results_json[1]
  /\ g_reads' = g_reads + 1
  /\ g_pc' = "ret"
  /\ UNCHANGED <<search_results_json, g_query, g_num, g_arg, g_forced, g_depth, g_i,
                 g_requests, g_forcedRuns, g_stop, g_writes, g_ret, g_cacheAtCall,
                 g_prevFallback, g_lastFetch>>
  /\ UNCHANGED <<stripVars, biVars, dVars>>

\* else branch, FileNotFoundError:
\* return get_google_search_results(query, num_results, forced=True)
FallbackSearch ==
  /\ g_pc = "load"
  /\ search_results_json = NoFile
  /\ g_reads' = g_reads + 1
  /\ g_depth' = g_depth + 1
  /\ EnterSearch(TRUE, g_forcedRuns)
  /\ UNCHANGED <<search_results_json, g_query, g_num, g_arg, g_requests, g_stop,
                 g_writes, g_ret, g_cacheAtCall, g_prevFallback, g_lastFetch>>
  /\ UNCHANGED <<stripVars, biVars, dVars>>

\* return results[:num_results]
ReturnSearch ==
  /\ g_pc = "ret"
  /\ g_ret' = Some(Take(results, g_num))
  /\ g_pc' = "idle"
  /\ UNCHANGED <<search_results_json, g_query, g_num, g_arg, g_forced, g_depth, g_i,
                 results, g_requests, g_forcedRuns, g_stop, g_reads, g_writes,
                 g_cacheAtCall, g_prevFallback, g_lastFetch>>
  /\ UNCHANGED <<stripVars, biVars, dVars>>

-----------------------------------------------------------------------------
(* details_services.__main__ with recall_services.get_services_from_gemini *)

\* service names of the catalog
Names == {"A", "B", "C"}
\* rubric scores the verifier hands out
ScoreValues == {2, 4}
\* score of a zero-fill record: dict(service_name=service, score=0.0)
ZeroScore == 0

\* the list object json.loads creates inside check_details
RetObj == "ret"
\* a list object a copying implementation would create
NewObj == "new"

\* the answer of the recall model for a list of names: one record per name,
\* followed by a record without a name and a record without a verdict
RecallResponse(names, know) ==
  [k \in 1..Len(names) |-> [service_name |-> names[k], know |-> know[names[k]]]]
  \o << [service_name |-> "", know |-> "true"],
        [service_name |-> "A", know |-> "null"] >>

\* [x for x in s if P(x)], P given as the set of elements to keep
RECURSIVE FilterSeq(_, _)
FilterSeq(s, keep) ==
  IF s = <<>> THEN <<>>
  ELSE IF Head(s) \in keep
       THEN <<Head(s)>> \o FilterSeq(Tail(s), keep)
       ELSE FilterSeq(Tail(s), keep)

\* the loop of get_services_from_gemini: keep item when
\* item['service_name'] and item['know'] is not None
RecallFilter(response) ==
  FilterSeq(response,
            {r \in {response[k] : k \in 1..Len(response)} :
               r.service_name # "" /\ r.know # "null"})

\* [service['service_name'] for service in service_details if service['know']]
remove_unknown_services(service_details) ==
  LET known == FilterSeq(service_details,
                         {r \in {service_details[k] : k \in 1..Len(service_details)} :
                            r.know = "true"})
  IN [k \in 1..Len(known) |-> known[k].service_name]

\* the answer of the details model: one ServiceDetail per requested name
DetailsResponse(names) ==
  [k \in 1..Len(names) |->
     [service_name |-> names[k], url |-> "url", company |-> "company"]]

\* the lists of ServiceScore records the verifier may answer with
ScoreLists ==
  SeqsUpTo([service_name : Names, score : ScoreValues], MaxScores)

\* [s['service_name'] for s in services_scores]
ScoreNames(scores) == {scores[k].service_name : k \in 1..Len(scores)}

DInit ==
  /\ d_pc = "start"
  /\ d_service_list = <<>>
  /\ service_list_gemini = <<>>
  /\ known_service_list = <<>>
  /\ service_details_gemini = <<>>
  /\ lists = [o \in {RetObj, NewObj} |-> <<>>]
  /\ services_scores = RetObj
  /\ verifier_out = <<>>
  /\ d_k = 0
  /\ bi_service_details_gemini_json = NoFile
  /\ bi_service_scores_gemini_json = NoFile

\* service_list = scrape.get_bi_service_list()
GetServiceList ==
  /\ d_pc = "start"
  /\ d_service_list' \in SeqsUpTo(Names, MaxNames)
  /\ d_pc' = "recall"
  /\ UNCHANGED <<service_list_gemini, known_service_list, service_details_gemini,
                 lists, services_scores, verifier_out, d_k,
                 bi_service_details_gemini_json, bi_service_scores_gemini_json>>
  /\ UNCHANGED <<stripVars, biVars, gVars>>

\* service_list_gemini = recall_services.get_services_from_gemini(service_list)
Recall ==
  /\ d_pc = "recall"
  /\ \E know \in [Names -> {"true", "false"}] :
       service_list_gemini' = RecallFilter(RecallResponse(d_service_list, know))
  /\ d_pc' = "filter"
  /\ UNCHANGED <<d_service_list, known_service_list, service_details_gemini,
                 lists, services_scores, verifier_out, d_k,
                 bi_service_details_gemini_json, bi_service_scores_gemini_json>>
  /\ UNCHANGED <<stripVars, biVars, gVars>>

\* known_service_list = remove_unknown_services(service_list_gemini)
RemoveUnknown ==
  /\ d_pc = "filter"
  /\ known_service_list' = remove_unknown_services(service_list_gemini)
  /\ d_pc' = "details"
  /\ UNCHANGED <<d_service_list, service_list_gemini, service_details_gemini,
                 lists, services_scores, verifier_out, d_k,
                 bi_service_details_gemini_json, bi_service_scores_gemini_json>>
  /\ UNCHANGED <<stripVars, biVars, gVars>>

\* service_details_gemini = get_service_details_from_gemini(known_service_list)
\* and its dump to bi_service_details_gemini.json
GetDetails ==
  /\ d_pc = "details"
  /\ service_details_gemini' = DetailsResponse(known_service_list)
  /\ bi_service_details_gemini_json' = Some(DetailsResponse(known_service_list))
  /\ d_pc' = "verify"
  /\ UNCHANGED <<d_service_list, service_list_gemini, known_service_list,
                 lists, services_scores, verifier_out, d_k,
                 bi_service_scores_gemini_json>>
  /\ UNCHANGED <<stripVars, biVars, gVars>>

\* services_scores = check_details(service_details_gemini): the verifier's
\* answer becomes a list object and services_scores is bound to it
CheckDetails ==
  /\ d_pc = "verify"
  /\ \E scores \in ScoreLists :
       /\ lists' = [lists EXCEPT ![RetObj] = scores]
       /\ verifier_out' = scores
  /\ services_scores' = RetObj
  /\ d_k' = 1
  /\ d_pc' = "fill"
  /\ UNCHANGED <<d_service_list, service_list_gemini, known_service_list,
                 service_details_gemini, bi_service_details_gemini_json,
                 bi_service_scores_gemini_json>>
  /\ UNCHANGED <<stripVars, biVars, gVars>>

\* a plausible slip: the zero record is inserted in front of the scored records
ZeroFilled_front(scores, service) ==
  IF service \notin ScoreNames(scores)
  THEN <<[service_name |-> service, score |-> ZeroScore]>> \o scores
  ELSE scores

\* a plausible slip: the membership test is left out
ZeroFilled_always(scores, service) ==
  Append(scores, [service_name |-> service, score |-> ZeroScore])

\* the body of the zero-fill loop for one service:
\* if service not in [s['service_name'] for s in services_scores]:
\*   services_scores.append(dict(service_name=service, score=0.0))
ZeroFilled(scores, service) ==
  IF service \notin ScoreNames(scores)
  THEN Append(scores, [service_name |-> service, score |-> ZeroScore])
  ELSE scores

\* a plausible slip: each iteration builds a new list instead of appending
ZeroFillStep_copy ==
  /\ d_pc = "fill"
  /\ d_k <= Len(d_service_list)
  /\ lists' = [lists EXCEPT
                 ![NewObj] = ZeroFilled(lists[services_scores], d_service_list[d_k])]
  /\ services_scores' = NewObj
  /\ d_k' = d_k + 1
  /\ UNCHANGED <<d_pc, d_service_list, service_list_gemini, known_service_list,
                 service_details_gemini, verifier_out,
                 bi_service_details_gemini_json, bi_service_scores_gemini_json>>
  /\ UNCHANGED <<stripVars, biVars, gVars>>

\* one iteration of for service in service_list: the list object that
\* services_scores is bound to is extended in place
ZeroFillStep ==
  /\ d_pc = "fill"
  /\ d_k <= Len(d_service_list)
  /\ lists' = [lists EXCEPT
                 ![services_scores] = ZeroFilled(lists[services_scores], d_service_list[d_k])]
  /\ d_k' = d_k + 1
  /\ UNCHANGED <<d_pc, d_service_list, service_list_gemini, known_service_list,
                 service_details_gemini, services_scores, verifier_out,
                 bi_service_details_gemini_json, bi_service_scores_gemini_json>>
  /\ UNCHANGED <<stripVars, biVars, gVars>>

\* after the loop: json.dump(services_scores, f) to bi_service_scores_gemini.json
DumpScores ==
  /\ d_pc = "fill"
  /\ d_k > Len(d_service_list)
  /\ bi_service_scores_gemini_json' = Some(lists[services_scores])
  /\ d_pc' = "done"
  /\ UNCHANGED <<d_service_list, service_list_gemini, known_service_list,
                 service_details_gemini, lists, services_scores, verifier_out, d_k,
                 bi_service_details_gemini_json>>
  /\ UNCHANGED <<stripVars, biVars, gVars>>

-----------------------------------------------------------------------------
(* Specifications *)

\* the ingestion part at rest
StripIdle ==
  /\ strip_pc = "off"
  /\ raw_name = <<>>
  /\ stored_name = None
  /\ restripped = None

\* the catalog provider at rest, no cache file
BiIdle ==
  /\ BiInit
  /\ bi_services_json = NoFile

\* the search provider at rest, no cache file
GIdle ==
  /\ GInit
  /\ search_results_json = NoFile

StripNext == Ingest \/ Reingest
InitStrip == StripInit /\ BiIdle /\ GIdle /\ DInit
SpecStrip == InitStrip /\ [][StripNext]_vars


BiNext ==
  \/ CallBi
  \/ PageOkBi
  \/ PageErrorBi
  \/ SaveBi
  \/ LoadBi
  \/ FallbackBi
  \/ ReturnBi
InitScrape == StripIdle /\ BiInit /\ GIdle /\ DInit
SpecScrape == InitScrape /\ [][BiNext]_vars

GNext ==
  \/ CallSearch
  \/ RejectSearch
  \/ ChunkItems
  \/ ChunkNoItems
  \/ ChunkFail
  \/ SaveSearch
  \/ LoadSearch
  \/ FallbackSearch
  \/ ReturnSearch
InitSearch == StripIdle /\ BiIdle /\ GInit /\ DInit
SpecSearch == InitSearch /\ [][GNext]_vars

\* get_bi_service_list has not been called
BiPristine == bi_pc = "idle" /\ bi_ret = None
\* get_google_search_results has not been called
GPristine == g_pc = "idle" /\ g_ret = None

\* both providers; a run calls one of them, any number of times
InitProviders == InitScrape \/ InitSearch
ProvidersNext ==
  \/ BiNext /\ GPristine
  \/ GNext /\ BiPristine
SpecProviders == InitProviders /\ [][ProvidersNext]_vars

DNext ==
  \/ GetServiceList
  \/ Recall
  \/ RemoveUnknown
  \/ GetDetails
  \/ CheckDetails
  \/ ZeroFillStep
  \/ DumpScores
InitDetails == StripIdle /\ BiIdle /\ GIdle /\ DInit
SpecDetails == InitDetails /\ [][DNext]_vars

-----------------------------------------------------------------------------
(* Properties of name ingestion (SpecStrip) *)

\* t is s without its leading and trailing whitespace
IsTrimOf(t, s) ==
  /\ t = <<>> \/ (t[1] # Space /\ t[Len(t)] # Space)
  /\ \E l \in 0..Len(s), r \in 0..Len(s) :
       /\ l + Len(t) + r = Len(s)
       /\ \A k \in 1..Len(s) :
            IF k <= l \/ k > l + Len(t) THEN s[k] = Space ELSE s[k] = t[k - l]

\* p is the part of s before its first full-width parenthesis
IsPrefixBeforeParen(p, s) ==
  /\ Len(p) < Len(s)
  /\ s[Len(p) + 1] = FWParen
  /\ \A k \in 1..Len(p) : p[k] = s[k] /\ s[k] # FWParen

\* t is s cut at the first full-width parenthesis (if any) and then trimmed
IsCutAndTrimmed(t, s) ==
  IF Contains(s, FWParen)
  THEN \E n \in 0..Len(s) :
         /\ IsPrefixBeforeParen(SubSeq(s, 1, n), s)
         /\ IsTrimOf(t, SubSeq(s, 1, n))
  ELSE IsTrimOf(t, s)

\* C6 as stated: every stored name is the raw name cut at the first
\* full-width parenthesis and trimmed, and stripping the stored name again
\* leaves it unchanged
C6_CutAndTrimmedAlways ==
  /\ strip_pc \in {"stored", "again"} => IsCutAndTrimmed(stored_name[1], raw_name)
  /\ strip_pc = "again" => restripped = stored_name

\* C6 amended: a raw name that contains a full-width parenthesis is stored cut at
\* the first one and trimmed; a raw name without one is stored unchanged,
\* whitespace included; stripping the stored name again leaves it unchanged
C6_StripOnlyWithParen ==
  /\ strip_pc \in {"stored", "again"} =>
       IF Contains(raw_name, FWParen)
       THEN /\ IsCutAndTrimmed(stored_name[1], raw_name)
            /\ ~Contains(stored_name[1], FWParen)
       ELSE stored_name[1] = raw_name
  /\ strip_pc = "again" => restripped = stored_name

\* a name with whitespace around the text before its parenthesis was stored
\* and stripped again
C6_Witness ==
  /\ strip_pc = "again"
  /\ raw_name = <<Space, "a", Space, FWParen>>
  /\ stored_name = Some(<<"a">>)

-----------------------------------------------------------------------------
(* Properties of get_bi_service_list (SpecScrape) *)

\* the pages 1..n in increasing order
PagesUpTo(n) == [k \in 1..n |-> k]

\* the names accumulated when page e raised after c of its cards were appended
AccumulatedAt(e, c) == NamesUpTo(e - 1) \o Take(PageNames(e), c)

C5_Pages1To15 ==
  (bi_pc = "ret" /\ bi_forcedRuns > 0 /\ bi_error = 0) =>
    bi_requests = PagesUpTo(DocLastPage)

-----------------------------------------------------------------------------
(* Properties of get_google_search_results (SpecSearch) *)

\* num_results lies in [1, 100]
InRange(n) == n \in MinResults..MaxResults

\* a call of get_google_search_results has been made
SearchCalled == g_pc # "idle" \/ g_ret # None

RECURSIVE SumNum(_)
\* the result counts asked for by a sequence of requests, added up
SumNum(reqs) == IF reqs = <<>> THEN 0 ELSE Head(reqs).num + SumNum(Tail(reqs))

\* C8: a call with num_results outside [1, 100], forced or not, goes straight
\* to return []: no request is issued and search_results.json is neither
\* opened for reading nor written
C8_RejectOutOfRange ==
  (SearchCalled /\ ~InRange(g_num)) =>
    /\ g_pc \in {"reject", "idle"}
    /\ g_requests = <<>>
    /\ g_reads = 0
    /\ g_writes = 0
    /\ g_forcedRuns = 0
    /\ search_results_json = g_cacheAtCall
    /\ g_pc = "idle" => g_ret = Some(<<>>)

\* a forced call with num_results = 101 has returned [] and left the cache
\* file of an earlier run as it was
C8_Witness ==
  /\ g_pc = "idle"
  /\ g_num = 101
  /\ g_arg
  /\ g_ret = Some(<<>>)
  /\ search_results_json = Some(Items("q0", 2))

\* C9: a forced fetch with num_results in 1..100 issues its requests with
\* start = 1, 11, 21, ... in that order, each asking for 1 to 10 results, the
\* counts asked for adding up to at most num_results; the chunk that fails or
\* has no "items" is the last one requested; at most num_results items are
\* returned
C9_ChunkedRequests ==
  (SearchCalled /\ InRange(g_num)) =>
    /\ \A k \in 1..Len(g_requests) :
         /\ g_requests[k].start = ChunkSize * (k - 1) + 1
         /\ g_requests[k].num \in 1..ChunkSize
    /\ SumNum(g_requests) <= g_num
    /\ g_stop \in {"fail", "nokey"} =>
         /\ g_pc \in {"save", "ret", "idle"}
         /\ g_requests[Len(g_requests)].start = g_i + 1
    /\ g_pc = "idle" => Len(g_ret[1]) <= g_num

\* a forced call for 15 results issued two requests, received more items than
\* it asked for and returned 15 of them
C9_Witness ==
  /\ g_pc = "idle"
  /\ g_arg
  /\ g_num = 15
  /\ g_requests = << [start |-> 1, num |-> 10], [start |-> 11, num |-> 5] >>
  /\ Len(results) = 16
  /\ Len(g_ret[1]) = 15

-----------------------------------------------------------------------------
(* Properties of both providers (SpecProviders) *)

\* a call of get_bi_service_list has been made
BiCalled == bi_pc # "idle" \/ bi_ret # None

\* the running or last call of get_bi_service_list was made with forced=False
\* while bi_services.json did not exist
BiFallbackCall == BiCalled /\ ~bi_arg /\ bi_cacheAtCall = NoFile

\* the running or last call of get_google_search_results was made with a valid
\* num_results and forced=False while search_results.json did not exist
SearchFallbackCall ==
  SearchCalled /\ InRange(g_num) /\ ~g_arg /\ g_cacheAtCall = NoFile

\* C2 for get_bi_service_list
C2_Bi ==
  /\ bi_depth <= 1
  /\ bi_depth = 1 => (bi_forced /\ bi_pc # "load")
  /\ BiFallbackCall =>
       /\ bi_forcedRuns <= 1
       /\ bi_pc \in {"ret", "idle"} =>
            /\ bi_forcedRuns = 1
            /\ bi_services_json = Some(service_list)
       /\ bi_pc = "idle" => bi_ret = bi_services_json
  /\ (BiCalled /\ bi_prevFallback /\ ~bi_arg) =>
       /\ bi_cacheAtCall # NoFile
       /\ bi_services_json = bi_cacheAtCall
       /\ bi_requests = <<>>
       /\ bi_forcedRuns = 0
       /\ bi_pc \in {"load", "ret", "idle"}
       /\ bi_pc = "idle" => bi_ret = bi_cacheAtCall

\* C2 for get_google_search_results
C2_Search ==
  /\ g_depth <= 1
  /\ g_depth = 1 => (g_forced /\ g_pc # "load")
  /\ SearchFallbackCall =>
       /\ g_forcedRuns <= 1
       /\ g_pc \in {"ret", "idle"} =>
            /\ g_forcedRuns = 1
            /\ g_writes = 1
            /\ search_results_json = Some(results)
       /\ g_pc = "idle" => g_ret = Some(Take(search_results_json[1], g_num))
  /\ (SearchCalled /\ InRange(g_num) /\ g_prevFallback /\ ~g_arg) =>
       /\ g_cacheAtCall # NoFile
       /\ search_results_json = g_cacheAtCall
       /\ g_requests = <<>>
       /\ g_forcedRuns = 0
       /\ g_writes = 0
       /\ g_pc \in {"load", "ret", "idle"}
       /\ g_pc = "idle" => g_ret = Some(Take(g_cacheAtCall[1], g_num))

\* C2: a call with forced=False that finds no cache file enters the forced
\* branch exactly once (the re-entered frame is forced and never reaches the
\* cache read again) and leaves its result in the cache file; the call with
\* forced=False that follows it issues no request and returns the contents of
\* the cache file (get_google_search_results: their first num_results items)
C2_FallbackOnce == C2_Bi /\ C2_Search

\* get_bi_service_list(forced=False) found no bi_services.json, fetched and
\* returned; the next call with forced=False has returned that list
C2_Witness ==
  /\ bi_pc = "idle"
  /\ bi_prevFallback
  /\ ~bi_arg
  /\ bi_requests = <<>>
  /\ bi_ret = bi_services_json
  /\ bi_ret = Some(NamesUpTo(PageStop - 1))

\* C10 for get_bi_service_list
C10_Bi ==
  /\ (bi_pc = "ret" /\ bi_forcedRuns > 0) =>
       /\ bi_services_json = Some(service_list)
       /\ bi_lastFetch = Some([failed |-> bi_error # 0, list |-> service_list])
  /\ (~bi_arg /\ bi_pc \in {"loop", "save"}) => bi_lastFetch = None
  /\ (bi_lastFetch # None /\ ~bi_arg /\ bi_pc = "idle" /\ bi_ret # None) =>
       /\ bi_ret = Some(bi_lastFetch[1].list)
       /\ bi_services_json = bi_ret
       /\ bi_forcedRuns = 0 => bi_requests = <<>>

\* C10 for get_google_search_results
C10_Search ==
  /\ (g_pc = "ret" /\ g_forcedRuns > 0) =>
       /\ search_results_json = Some(results)
       /\ g_lastFetch = Some([stop |-> g_stop, list |-> results])
  /\ (~g_arg /\ g_pc \in {"loop", "save"}) => g_lastFetch = None
  /\ (g_lastFetch # None /\ ~g_arg /\ InRange(g_num) /\ g_pc = "idle" /\ g_ret # None) =>
       /\ g_ret = Some(Take(g_lastFetch[1].list, g_num))
       /\ search_results_json = Some(g_lastFetch[1].list)
       /\ g_forcedRuns = 0 => g_requests = <<>>

-----------------------------------------------------------------------------
(* Properties of the details pipeline (SpecDetails) *)

\* the score list written to bi_service_scores_gemini.json
FinalScores == bi_service_scores_gemini_json[1]

\* the elements of a sequence
Range(s) == {s[k] : k \in 1..Len(s)}

\* no element occurs twice in s
NoRepeat(s) == \A j, k \in 1..Len(s) : s[j] = s[k] => j = k

\* the service names of a list of records, in order
NamesOf(scores) == [k \in 1..Len(scores) |-> scores[k].service_name]

\* the positions of the records for name n
RecordsFor(scores, n) == {k \in 1..Len(scores) : scores[k].service_name = n}

\* the names of the service list that the verifier's answer lacks, each once,
\* in the order of their first occurrence in the service list
MissingNames ==
  LET first == {k \in 1..Len(d_service_list) :
                  /\ d_service_list[k] \notin Range(NamesOf(verifier_out))
                  /\ \A j \in 1..(k - 1) : d_service_list[j] # d_service_list[k]}
      nth[m \in 1..Cardinality(first)] ==
        CHOOSE k \in first : Cardinality({j \in first : j < k}) = m - 1
  IN [m \in 1..Cardinality(first) |-> d_service_list[nth[m]]]

\* C1 as stated: whatever the service list and the verifier's answer, the final
\* list has len(names) records, no name twice, no name of the list missing,
\* and every name the verifier left out with score 0.0
C1_OnePerNameAlways ==
  d_pc = "done" =>
    /\ Len(FinalScores) = Len(d_service_list)
    /\ NoRepeat(NamesOf(FinalScores))
    /\ Range(d_service_list) \subseteq Range(NamesOf(FinalScores))
    /\ \A n \in Range(d_service_list) \ Range(NamesOf(verifier_out)) :
         \E k \in RecordsFor(FinalScores, n) : FinalScores[k].score = ZeroScore

\* the service list has no repeated name and the verifier answered with at
\* most one record per name, each for a name of the service list
ScoresAreSubset ==
  /\ NoRepeat(d_service_list)
  /\ NoRepeat(NamesOf(verifier_out))
  /\ Range(NamesOf(verifier_out)) \subseteq Range(d_service_list)

\* C1 amended: no name of the service list is missing from the final list and
\* every name the verifier left out has exactly one record, with score 0.0;
\* the final list has len(names) records and no name twice when the service
\* list has no repeated name and the verifier answered with at most one record
\* per name, each for a name of the service list
C1_ZeroFillComplete ==
  d_pc = "done" =>
    /\ Range(d_service_list) \subseteq Range(NamesOf(FinalScores))
    /\ \A n \in Range(d_service_list) \ Range(NamesOf(verifier_out)) :
         /\ Cardinality(RecordsFor(FinalScores, n)) = 1
         /\ \A k \in RecordsFor(FinalScores, n) : FinalScores[k].score = ZeroScore
    /\ ScoresAreSubset =>
         /\ Len(FinalScores) = Len(d_service_list)
         /\ NoRepeat(NamesOf(FinalScores))

\* three different names, of which the verifier scored two, were completed
C1_Witness ==
  /\ d_pc = "done"
  /\ Len(d_service_list) = 3
  /\ ScoresAreSubset
  /\ Len(verifier_out) = 2
  /\ Len(FinalScores) = 3

\* the records of the e2e scenario
ScenarioScores ==
  << [service_name |-> "A", score |-> 4], [service_name |-> "B", score |-> 2] >>

\* C4: the final list is the verifier's records in the verifier's order,
\* followed by one zero-score record per missing name in service-list order;
\* names [A,B,C] with A,B known and C unknown (details requested for A and B
\* only) and verifier scores A=4, B=2 give [{A,4},{B,2},{C,0}]
C4_ScoredThenZeroFilled ==
  /\ d_pc \in {"verify", "fill", "done"} =>
       NamesOf(service_details_gemini) = known_service_list
  /\ d_pc = "done" =>
       /\ FinalScores =
            verifier_out \o
            [m \in 1..Len(MissingNames) |->
               [service_name |-> MissingNames[m], score |-> ZeroScore]]
       /\ (/\ d_service_list = <<"A", "B", "C">>
           /\ known_service_list = <<"A", "B">>
           /\ verifier_out = ScenarioScores) =>
            FinalScores = Append(ScenarioScores, [service_name |-> "C", score |-> ZeroScore])

\* the e2e scenario has run to its end
C4_Witness ==
  /\ d_pc = "done"
  /\ d_service_list = <<"A", "B", "C">>
  /\ service_list_gemini =
       << [service_name |-> "A", know |-> "true"],
          [service_name |-> "B", know |-> "true"],
          [service_name |-> "C", know |-> "false"] >>
  /\ NamesOf(service_details_gemini) = <<"A", "B">>
  /\ verifier_out = ScenarioScores
  /\ Len(FinalScores) = 3

\* C7 as stated: the list check_details returned has the same records after
\* the zero-fill step as before it
C7_VerifierListUntouched ==
  d_pc \in {"fill", "done"} => lists[RetObj] = verifier_out

\* C7 amended: the zero-fill step creates no new collection; it appends to the
\* list check_details returned, which afterwards starts with the verifier's
\* records, unchanged and in their order, followed by the zero-score records,
\* and so is longer than before whenever a name of the service list was missing
C7_ExtendedInPlace ==
  d_pc \in {"fill", "done"} =>
    /\ services_scores = RetObj
    /\ lists[NewObj] = <<>>
    /\ Len(lists[RetObj]) >= Len(verifier_out)
    /\ SubSeq(lists[RetObj], 1, Len(verifier_out)) = verifier_out
    /\ \A k \in (Len(verifier_out) + 1)..Len(lists[RetObj]) :
         lists[RetObj][k].score = ZeroScore
    /\ d_pc = "done" =>
         /\ FinalScores = lists[RetObj]
         /\ Len(lists[RetObj]) = Len(verifier_out) + Len(MissingNames)

\* the list check_details returned with two records holds three after the step
C7_Witness ==
  /\ d_pc = "done"
  /\ Len(verifier_out) = 2
  /\ Len(lists[RetObj]) = 3
  /\ services_scores = RetObj

=============================================================================
